---- MODULE Spec2Model ----
(***************************************************************************)
(* A model of timm/data/loader.py and timm/data/dataset.py:                *)
(*   - PrefetchLoader.__iter__ as a generator driven by a consumer, with   *)
(*     the background CUDA stream and the consumer (current) stream,       *)
(*   - fast_collate,                                                       *)
(*   - natural_key / find_images_and_targets / Dataset.__init__,           *)
(*   - AugMixDataset,                                                      *)
(*   - DatasetTar and its lazily opened archive handle.                    *)
(* Each component has its own specification (SpecPrefetch, SpecCollate,    *)
(* SpecEnum, SpecAugMix, SpecTar); the variables of the other components   *)
(* stay at their idle values.                                              *)
(***************************************************************************)
EXTENDS Integers, Sequences, FiniteSets, TLC

VARIABLES
    \* ---- PrefetchLoader.__iter__ (loader.py 79-103)
    loaderLen,     \* number of batches the wrapped loader produces
    fp16,          \* self.fp16
    re_on,         \* self.random_erasing is not None
    pc,            \* position of the generator
    pulled,        \* batches pulled from the wrapped loader so far
    first,         \* local `first`
    input,         \* local `input` (Unbound until line 100 ran once)
    next_input,    \* local `next_input`
    yields,        \* what the generator has yielded, in order
    used,          \* the consumer has launched its kernels on the last yield
    bgQueue,       \* `stream`: work queued and not yet started (batch ids)
    bgRunning,     \* `stream`: the batch being written (0: idle)
    bgCompleted,   \* `stream`: number of batches whose work finished (FIFO)
    queuedCount,   \* number of batches whose work was queued on `stream`
    curStream,     \* current stream: queued waits and consumer kernels
    reading,       \* batch the consumer's running kernel reads (0: none)
    curHist,       \* everything ever queued on the current stream, in order
    \* ---- fast_collate (loader.py 11-45)
    batch,         \* the argument: a list of (payload, target) samples
    collated,      \* what fast_collate returned or raised (NotRun before)
    \* ---- find_images_and_targets / Dataset.__init__ (dataset.py 18-100)
    tree,          \* the files under the root folder
    class_map,     \* the class map file named by `class_map` (given: FALSE for '')
    datasets,      \* two constructions of Dataset over the same tree
    \* ---- AugMixDataset (dataset.py 258-295)
    ds_transform,  \* self.dataset.transform
    augmentation,  \* self.augmentation
    normalize,     \* self.normalize
    num_splits,    \* self.num_splits
    augmix,        \* "ok", or the error the constructor raised
    got,           \* the last __getitem__: its arguments and what it returned
    \* ---- DatasetTar (dataset.py 227-255)
    tar_members,   \* number of image members of the archive at `root`
    num_workers,   \* DataLoader workers reading the dataset (0: the main process)
    tar_pc,        \* "new" before DatasetTar(...) ran, then "constructed"
    tar_samples,   \* self.samples
    proc,          \* per process: running, its copy of self.tarfile, its gets, the member last read
    handles        \* every archive handle opened so far

prefetchVars == <<loaderLen, fp16, re_on, pc, pulled, first, input, next_input,
                  yields, used, bgQueue, bgRunning, bgCompleted, queuedCount,
                  curStream, reading, curHist>>

collateVars == <<batch, collated>>

enumVars == <<tree, class_map, datasets>>

augVars == <<ds_transform, augmentation, normalize, num_splits, augmix, got>>

tarVars == <<tar_members, num_workers, tar_pc, tar_samples, proc, handles>>

vars == <<prefetchVars, collateVars, enumVars, augVars, tarVars>>

\* ------------------------------------------------------------------ bounds
MaxBatches == 3
MaxBatchSize == 2
MaxSplits == 2
MaxFiles == 3
MaxAugSplits == 3
MaxSamples == 3
MaxWorkers == 2
MaxTarMembers == 2
MaxGets == 3

(***************************************************************************)
(*                         PrefetchLoader.__iter__                         *)
(***************************************************************************)

\* `input` before line 100 has run: reading it raises UnboundLocalError
Unbound == [id |-> 0, ops |-> <<>>]

\* A batch as the wrapped loader hands it over (host memory, no device op yet)
HostBatch(k) == [id |-> k, ops |-> <<>>]

\* lines 85-92: the operations queued on `stream` for one batch
Processing(half, erase) ==
    <<"cuda", IF half THEN "half" ELSE "float", "sub_mean", "div_std">>
      \o (IF erase THEN <<"random_erasing">> ELSE <<>>)

\* line 99: torch.cuda.current_stream().wait_stream(stream) queues, on the
\* current stream, a wait for everything queued on `stream` so far
WaitStreamOmitted(cur, upto) == cur
WaitStream(cur, upto) == Append(cur, [op |-> "wait", arg |-> upto])

\* line 95: the value the generator yields inside the loop
YieldNext == next_input
YieldedInLoop == input

\* the state of a component that a specification does not exercise
NotRun == [status |-> "not run"]
IdlePrefetch ==
    /\ loaderLen = 0 /\ fp16 = FALSE /\ re_on = FALSE /\ pc = "idle"
    /\ pulled = 0 /\ first = TRUE /\ input = Unbound /\ next_input = Unbound
    /\ yields = <<>> /\ used = FALSE /\ bgQueue = <<>> /\ bgRunning = 0
    /\ bgCompleted = 0 /\ queuedCount = 0 /\ curStream = <<>> /\ reading = 0
    /\ curHist = <<>>
IdleCollate == batch = <<>> /\ collated = NotRun
IdleEnum ==
    /\ tree = {}
    /\ class_map = [given |-> FALSE, lines |-> <<>>]
    /\ datasets = <<NotRun, NotRun>>

\* None, for a transform
NoTransform == [kind |-> "none", items |-> <<>>]
IdleAug ==
    /\ ds_transform = NoTransform /\ augmentation = NoTransform
    /\ normalize = NoTransform /\ num_splits = 0 /\ augmix = "idle" /\ got = NotRun
IdleTar ==
    /\ tar_members = 0 /\ num_workers = 0 /\ tar_pc = "idle" /\ tar_samples = <<>>
    /\ proc = <<>> /\ handles = <<>>

InitPrefetch ==
    /\ IdleCollate
    /\ IdleEnum
    /\ IdleAug
    /\ IdleTar
    /\ loaderLen \in 0..MaxBatches
    /\ fp16 \in BOOLEAN
    /\ re_on \in BOOLEAN
    /\ pc = "created"
    /\ pulled = 0
    /\ first = TRUE
    /\ input = Unbound
    /\ next_input = Unbound
    /\ yields = <<>>
    /\ used = FALSE
    /\ bgQueue = <<>>
    /\ bgRunning = 0
    /\ bgCompleted = 0
    /\ queuedCount = 0
    /\ curStream = <<>>
    /\ reading = 0
    /\ curHist = <<>>

\* lines 83-92: the for statement pulls the next batch and the with block
\* queues its transfer, cast, normalisation and erasing on `stream`
FetchAndQueue ==
    /\ pc = "loop"
    /\ pulled < loaderLen
    /\ pulled' = pulled + 1
    /\ next_input' = [HostBatch(pulled + 1) EXCEPT !.ops = Processing(fp16, re_on)]
    /\ bgQueue' = Append(bgQueue, pulled + 1)
    /\ queuedCount' = queuedCount + 1
    /\ pc' = "queued"
    /\ UNCHANGED <<loaderLen, fp16, re_on, first, input, yields, used,
                   bgRunning, bgCompleted, curStream, reading, curHist>>

\* lines 94-97: yield the previous batch, except on the first pass
YieldPrevious ==
    /\ pc = "queued"
    /\ IF first
         THEN /\ first' = FALSE
              /\ pc' = "wait"
              /\ UNCHANGED <<yields, used>>
         ELSE /\ yields' = Append(yields, YieldedInLoop)
              /\ used' = FALSE
              /\ pc' = "suspended"
              /\ UNCHANGED first
    /\ UNCHANGED <<loaderLen, fp16, re_on, pulled, input, next_input, bgQueue,
                   bgRunning, bgCompleted, queuedCount, curStream, reading,
                   curHist>>

\* lines 99-101: wait_stream, then rotate next_input into input
WaitAndRotate ==
    /\ pc = "wait"
    /\ curStream' = WaitStream(curStream, queuedCount)
    /\ curHist' = WaitStream(curHist, queuedCount)
    /\ input' = next_input
    /\ pc' = "loop"
    /\ UNCHANGED <<loaderLen, fp16, re_on, pulled, first, next_input, yields,
                   used, bgQueue, bgRunning, bgCompleted, queuedCount, reading>>

\* line 83 exhausted, then line 103: the final yield; `input` is unbound when
\* the loop body never ran, and reading it raises UnboundLocalError
FinalYield ==
    /\ pc = "loop"
    /\ pulled = loaderLen
    /\ IF input = Unbound
         THEN /\ pc' = "error"
              /\ UNCHANGED <<yields, used>>
         ELSE /\ yields' = Append(yields, input)
              /\ used' = FALSE
              /\ pc' = "suspended_final"
    /\ UNCHANGED <<loaderLen, fp16, re_on, pulled, first, input, next_input,
                   bgQueue, bgRunning, bgCompleted, queuedCount, curStream,
                   reading, curHist>>

\* the consumer calls next(): the generator starts, resumes after line 95, or
\* returns after line 103 (StopIteration)
ConsumerNext ==
    /\ pc \in {"created", "suspended", "suspended_final"}
    /\ pc' = CASE pc = "created" -> "loop"
               [] pc = "suspended" -> "wait"
               [] pc = "suspended_final" -> "done"
    /\ UNCHANGED <<loaderLen, fp16, re_on, pulled, first, input, next_input,
                   yields, used, bgQueue, bgRunning, bgCompleted, queuedCount,
                   curStream, reading, curHist>>

\* the consumer launches, on the current stream, kernels that read the batch
\* it was just handed
ConsumerUse ==
    /\ pc \in {"suspended", "suspended_final"}
    /\ ~used
    /\ used' = TRUE
    /\ curStream' = Append(curStream, [op |-> "use", arg |-> yields[Len(yields)].id])
    /\ curHist' = Append(curHist, [op |-> "use", arg |-> yields[Len(yields)].id])
    /\ UNCHANGED <<loaderLen, fp16, re_on, pc, pulled, first, input, next_input,
                   yields, bgQueue, bgRunning, bgCompleted, queuedCount,
                   reading>>

\* the consumer stops iterating: the suspended generator is closed
\* (GeneratorExit is raised at the yield; no statement after it runs)
ConsumerBreak ==
    /\ pc \in {"suspended", "suspended_final"}
    /\ pc' = "closed"
    /\ UNCHANGED <<loaderLen, fp16, re_on, pulled, first, input, next_input,
                   yields, used, bgQueue, bgRunning, bgCompleted, queuedCount,
                   curStream, reading, curHist>>

\* the device starts the next work item of `stream` (streams are FIFO)
BgStart ==
    /\ bgRunning = 0
    /\ bgQueue # <<>>
    /\ bgRunning' = Head(bgQueue)
    /\ bgQueue' = Tail(bgQueue)
    /\ UNCHANGED <<loaderLen, fp16, re_on, pc, pulled, first, input, next_input,
                   yields, used, bgCompleted, queuedCount, curStream, reading,
                   curHist>>

\* the device finishes the work item of `stream`
BgFinish ==
    /\ bgRunning # 0
    /\ bgCompleted' = bgRunning
    /\ bgRunning' = 0
    /\ UNCHANGED <<loaderLen, fp16, re_on, pc, pulled, first, input, next_input,
                   yields, used, bgQueue, queuedCount, curStream, reading,
                   curHist>>

\* the device runs the head of the current stream: a wait passes once the
\* work it covers has finished, a consumer kernel starts reading its batch
CurStep ==
    /\ reading = 0
    /\ curStream # <<>>
    /\ LET h == Head(curStream) IN
         IF h.op = "wait"
           THEN /\ bgCompleted >= h.arg
                /\ UNCHANGED reading
           ELSE reading' = h.arg
    /\ curStream' = Tail(curStream)
    /\ UNCHANGED <<loaderLen, fp16, re_on, pc, pulled, first, input, next_input,
                   yields, used, bgQueue, bgRunning, bgCompleted, queuedCount,
                   curHist>>

\* the consumer's kernel finishes
CurFinish ==
    /\ reading # 0
    /\ reading' = 0
    /\ UNCHANGED <<loaderLen, fp16, re_on, pc, pulled, first, input, next_input,
                   yields, used, bgQueue, bgRunning, bgCompleted, queuedCount,
                   curStream, curHist>>

PrefetchOnly == UNCHANGED <<collateVars, enumVars, augVars, tarVars>>

NextPrefetch ==
    \/ FetchAndQueue /\ PrefetchOnly
    \/ YieldPrevious /\ PrefetchOnly
    \/ WaitAndRotate /\ PrefetchOnly
    \/ FinalYield /\ PrefetchOnly
    \/ ConsumerNext /\ PrefetchOnly
    \/ ConsumerUse /\ PrefetchOnly
    \/ ConsumerBreak /\ PrefetchOnly
    \/ BgStart /\ PrefetchOnly
    \/ BgFinish /\ PrefetchOnly
    \/ CurStep /\ PrefetchOnly
    \/ CurFinish /\ PrefetchOnly

SpecPrefetch == InitPrefetch /\ [][NextPrefetch]_vars

\* ---------------------------------------------------- PrefetchLoader claims

\* the highest batch whose queued work a wait_stream on the current stream covers
WaitedUpTo ==
    LET ws == {curHist[q].arg : q \in {r \in 1..Len(curHist) : curHist[r].op = "wait"}}
    IN IF ws = {} THEN 0 ELSE CHOOSE m \in ws : \A x \in ws : x <= m

\* batches whose work is queued on `stream` and covered by no wait_stream yet
Unwaited == (WaitedUpTo + 1)..queuedCount

\* C1: with n >= 1 underlying batches, the k-th yield is the processed B_k
\* (in order, nothing skipped or duplicated), never more than n yields and
\* exactly n once the iteration has finished; B_k with k < n is yielded only
\* after B_(k+1) was pulled and queued on the background stream, nothing is
\* yielded on the first pull, and B_n is yielded only once the underlying
\* iterator is exhausted and no further batch is pending.
Thm_C1_OrderedOneBatchLag ==
    loaderLen >= 1 =>
      /\ Len(yields) <= loaderLen
      /\ \A k \in 1..Len(yields) :
           /\ yields[k].id = k
           /\ yields[k].ops \in
                {<<"cuda", "half", "sub_mean", "div_std">>,
                 <<"cuda", "float", "sub_mean", "div_std">>,
                 <<"cuda", "half", "sub_mean", "div_std", "random_erasing">>,
                 <<"cuda", "float", "sub_mean", "div_std", "random_erasing">>}
           /\ (yields[k].ops[2] = "half") = fp16
           /\ (Len(yields[k].ops) = 5) = re_on
           /\ k < loaderLen => (pulled >= k + 1 /\ queuedCount >= k + 1)
           /\ k = loaderLen =>
                /\ pulled = loaderLen
                /\ pc \in {"suspended_final", "done", "closed"}
                /\ Unwaited = {}
      /\ (pulled <= 1 /\ pc \in {"created", "loop", "queued", "wait"} /\ loaderLen > 1)
           => yields = <<>>
      /\ pc = "queued" /\ first => yields = <<>>
      /\ pc = "done" => Len(yields) = loaderLen
      /\ pc # "error"

\* C1 witness: an iteration over at least two batches ran to its end
Wit_C1_FullIteration ==
    /\ loaderLen >= 2
    /\ pc = "done"
    /\ Len(yields) = loaderLen

\* C2: a batch is never read by the consumer's kernels while the background
\* stream still writes it (or has not started to); every yielded batch, and
\* every consumer kernel, comes after a wait_stream issued after that batch's
\* work was queued; the work not yet waited for at a yield inside the loop is
\* that of the next batch alone, and there is none at the final yield.
Thm_C2_NoReadWhileWritten ==
    /\ reading # 0 =>
         /\ reading # bgRunning
         /\ reading <= bgCompleted
         /\ \A q \in 1..Len(bgQueue) : bgQueue[q] # reading
    /\ \A k \in 1..Len(yields) : yields[k].id <= WaitedUpTo
    /\ \A p \in 1..Len(curHist) :
         curHist[p].op = "use" =>
           \E q \in 1..(p - 1) : curHist[q].op = "wait" /\ curHist[q].arg >= curHist[p].arg
    /\ pc = "suspended" => Unwaited = {yields[Len(yields)].id + 1}
    /\ pc = "suspended_final" => Unwaited = {}

\* C2 witness: the consumer reads batch 1 while the background stream writes
\* batch 2
Wit_C2_ReadOneWriteNext ==
    /\ reading = 1
    /\ bgRunning = 2
    /\ pc = "suspended"

\* C3 (as claimed): when the iteration ends (the consumer stopped early, or
\* the generator returned), no work queued on the background stream is left
\* that no wait_stream covers.
Cex_C3_DrainedOnEarlyStop ==
    pc \in {"closed", "done"} => Unwaited = {}

\* C10 (as claimed): over an underlying iterator of zero batches the
\* iteration yields nothing and finishes normally, without an error.
Cex_C10_EmptyFinishesNormally ==
    (loaderLen = 0 /\ pc \notin {"created", "loop"}) => (pc = "done" /\ yields = <<>>)

(***************************************************************************)
(*                              fast_collate                               *)
(***************************************************************************)

\* values of a uint8 array element (an array is modelled by one element)
ByteVals == {1, 255}
\* int64 targets
TargetVals == {1, 2}

\* payloads: a tuple of K arrays, one np.ndarray, or one torch.Tensor
TuplePayloads ==
    UNION {[kind : {"tuple"}, arrs : [1..K -> ByteVals]] : K \in 1..MaxSplits}
PlainPayloads(kind) == [kind : {kind}, arrs : [1..1 -> ByteVals]]

SamplesOf(payloads) == [payload : payloads, target : TargetVals]

\* the lists a DataLoader worker hands to collate_fn: N >= 1 samples produced
\* by one dataset, hence payloads of one kind
Batches ==
    UNION {[1..N -> SamplesOf(P)] :
             N \in 1..MaxBatchSize,
             P \in {TuplePayloads, PlainPayloads("ndarray"), PlainPayloads("tensor")}}

\* torch.zeros(n, ...): rows 0..n-1
Zeros(n) == [r \in 0..(n - 1) |-> 0]

\* lines 25-26: the row that sample i's j-th array and target are written to
RowIndexTransposed(i, j, batch_size) == j + i * batch_size
RowIndex(i, j, batch_size) == i + j * batch_size

\* uint8 `+=`
AddU8(a, b) == (a + b) % 256

\* lines 22-26, from iteration (i, j) on; st is [tensor, targets, writes],
\* writes counting the assignments to each row
RECURSIVE CollateSplits(_, _, _, _, _)
CollateSplits(b, inner_tuple_size, i, j, st) ==
    LET batch_size == Len(b) IN
    IF i >= batch_size THEN [status |-> "ok", tensor |-> st.tensor,
                             targets |-> st.targets, writes |-> st.writes]
    ELSE IF Len(b[i + 1].payload.arrs) # inner_tuple_size
      THEN [status |-> "AssertionError"]            \* line 23
    ELSE IF j >= inner_tuple_size
      THEN CollateSplits(b, inner_tuple_size, i + 1, 0, st)
    ELSE LET r == RowIndex(i, j, batch_size) IN
         IF r \notin DOMAIN st.tensor THEN [status |-> "IndexError"]
         ELSE CollateSplits(b, inner_tuple_size, i, j + 1,
                [tensor  |-> [st.tensor EXCEPT ![r] =
                                AddU8(@, b[i + 1].payload.arrs[j + 1])],
                 targets |-> [st.targets EXCEPT ![r] = b[i + 1].target],
                 writes  |-> [st.writes EXCEPT ![r] = @ + 1]])

\* lines 11-45
fast_collate(b) ==
    LET batch_size == Len(b) IN
    IF b[1].payload.kind = "tuple"
      THEN LET inner_tuple_size == Len(b[1].payload.arrs)
               flattened_batch_size == batch_size * inner_tuple_size
           IN CollateSplits(b, inner_tuple_size, 0, 0,
                [tensor  |-> Zeros(flattened_batch_size),
                 targets |-> Zeros(flattened_batch_size),
                 writes  |-> Zeros(flattened_batch_size)])
    ELSE IF b[1].payload.kind = "ndarray"
      THEN [status  |-> "ok",
            tensor  |-> [r \in 0..(batch_size - 1) |-> AddU8(0, b[r + 1].payload.arrs[1])],
            targets |-> [r \in 0..(batch_size - 1) |-> b[r + 1].target],
            writes  |-> [r \in 0..(batch_size - 1) |-> 1]]
    ELSE IF b[1].payload.kind = "tensor"
      THEN [status  |-> "ok",
            tensor  |-> [r \in 0..(batch_size - 1) |-> b[r + 1].payload.arrs[1]],
            targets |-> [r \in 0..(batch_size - 1) |-> b[r + 1].target],
            writes  |-> [r \in 0..(batch_size - 1) |-> 1]]
    ELSE [status |-> "AssertionError"]               \* line 45

InitCollate ==
    /\ IdlePrefetch
    /\ IdleEnum
    /\ IdleAug
    /\ IdleTar
    /\ batch \in Batches
    /\ collated = NotRun

\* collate_fn(batch)
Collate ==
    /\ collated = NotRun
    /\ collated' = fast_collate(batch)
    /\ UNCHANGED <<batch, prefetchVars, enumVars, augVars, tarVars>>

NextCollate == Collate

SpecCollate == InitCollate /\ [][NextCollate]_vars

\* ------------------------------------------------------ fast_collate claim

\* the batch is N samples whose payloads are all tuples of the same K arrays
IsSplitBatch == 
    /\ batch # <<>>
    /\ \A i \in 1..Len(batch) :
         /\ batch[i].payload.kind = "tuple"
         /\ Len(batch[i].payload.arrs) = Len(batch[1].payload.arrs)

\* C4: for N samples whose payloads are tuples of K arrays, fast_collate
\* returns N*K rows and N*K labels; row i + k*N is sample i's k-th array and
\* label i + k*N is sample i's label; every row 0..N*K-1 is written exactly
\* once, so block k of N consecutive rows is slot k of samples 0..N-1 in
\* their original order.
Thm_C4_SplitLayout ==
    (IsSplitBatch /\ collated # NotRun) =>
      LET N == Len(batch)
          K == Len(batch[1].payload.arrs)
      IN /\ collated.status = "ok"
         /\ DOMAIN collated.tensor = 0..(N * K - 1)
         /\ DOMAIN collated.targets = 0..(N * K - 1)
         /\ \A i \in 0..(N - 1) : \A k \in 0..(K - 1) :
              /\ collated.tensor[i + k * N] = batch[i + 1].payload.arrs[k + 1]
              /\ collated.targets[i + k * N] = batch[i + 1].target
         /\ \A r \in 0..(N * K - 1) : collated.writes[r] = 1
         /\ \A k \in 0..(K - 1) :
              [i \in 0..(N - 1) |-> collated.tensor[k * N + i]]
                = [i \in 0..(N - 1) |-> batch[i + 1].payload.arrs[k + 1]]

\* C4 witness: a batch of two samples of two different views each was collated
Wit_C4_TwoByTwo ==
    /\ IsSplitBatch
    /\ Len(batch) = 2
    /\ Len(batch[1].payload.arrs) = 2
    /\ batch[1].payload.arrs[1] # batch[1].payload.arrs[2]
    /\ batch[1].target # batch[2].target
    /\ collated # NotRun
    /\ collated.status = "ok"

(***************************************************************************)
(*        natural_key, find_images_and_targets, Dataset.__init__           *)
(* A string is a sequence of one-character strings.                        *)
(***************************************************************************)

\* the characters that occur in the modelled trees, with their code points
CodePoint(c) ==
    CASE c = "." -> 46 [] c = "/" -> 47
      [] c = "0" -> 48 [] c = "1" -> 49 [] c = "2" -> 50
      [] c = "C" -> 67 [] c = "G" -> 71 [] c = "J" -> 74 [] c = "P" -> 80
      [] c = "c" -> 99 [] c = "g" -> 103 [] c = "j" -> 106 [] c = "p" -> 112
      [] c = "r" -> 114 [] c = "t" -> 116 [] c = "x" -> 120

\* str.lower() on one character
LowerChar(c) ==
    CASE c = "C" -> "c" [] c = "G" -> "g" [] c = "J" -> "j" [] c = "P" -> "p"
      [] OTHER -> c

\* str.lower()
Lower(str) == [i \in 1..Len(str) |-> LowerChar(str[i])]

IsDigitChar(c) == c \in {"0", "1", "2"}

\* str.isdigit(): non-empty and all digits
IsDigit(str) == str # <<>> /\ \A i \in 1..Len(str) : IsDigitChar(str[i])

\* int(s) of a digit string
RECURSIVE IntOf(_)
IntOf(str) ==
    IF str = <<>> THEN 0
    ELSE 10 * IntOf(SubSeq(str, 1, Len(str) - 1)) + (CodePoint(str[Len(str)]) - 48)

\* Python's str < str: lexicographic on code points
RECURSIVE StrLess(_, _)
StrLess(a, b) ==
    IF b = <<>> THEN FALSE
    ELSE IF a = <<>> THEN TRUE
    ELSE IF CodePoint(Head(a)) # CodePoint(Head(b))
      THEN CodePoint(Head(a)) < CodePoint(Head(b))
    ELSE StrLess(Tail(a), Tail(b))

\* the length of the longest prefix of str made of digits (want = TRUE) or of
\* non-digits (want = FALSE)
RECURSIVE RunLen(_, _)
RunLen(str, want) ==
    IF str = <<>> \/ IsDigitChar(Head(str)) # want THEN 0
    ELSE 1 + RunLen(Tail(str), want)

\* re.split(r'(\d+)', str): text, digits, text, ..., text
RECURSIVE ReSplit(_)
ReSplit(str) ==
    LET n == RunLen(str, FALSE)
        rest == SubSeq(str, n + 1, Len(str))
        m == RunLen(rest, TRUE)
    IN IF rest = <<>> THEN <<SubSeq(str, 1, n)>>
       ELSE <<SubSeq(str, 1, n), SubSeq(rest, 1, m)>>
              \o ReSplit(SubSeq(rest, m + 1, Len(rest)))

\* line 20 without the int() conversion: every element stays a string
natural_key_strings(string_) ==
    LET parts == ReSplit(Lower(string_))
    IN [i \in 1..Len(parts) |-> [isint |-> FALSE, int |-> 0, str |-> parts[i]]]

\* line 20: [int(s) if s.isdigit() else s for s in re.split(r'(\d+)', string_.lower())]
natural_key(string_) ==
    LET parts == ReSplit(Lower(string_))
    IN [i \in 1..Len(parts) |->
          IF IsDigit(parts[i])
            THEN [isint |-> TRUE, int |-> IntOf(parts[i]), str |-> <<>>]
            ELSE [isint |-> FALSE, int |-> 0, str |-> parts[i]]]

\* Python's list < list on keys.  re.split alternates text and digit runs, so
\* elements at the same position are both str or both int (an int/str pair,
\* which would raise TypeError, cannot occur).
RECURSIVE KeyLess(_, _)
KeyLess(a, b) ==
    IF b = <<>> THEN FALSE
    ELSE IF a = <<>> THEN TRUE
    ELSE IF Head(a) = Head(b) THEN KeyLess(Tail(a), Tail(b))
    ELSE IF Head(a).isint /\ Head(b).isint THEN Head(a).int < Head(b).int
    ELSE StrLess(Head(a).str, Head(b).str)

\* sorted(..., key=...) is stable: an element goes after every element whose
\* key is not greater.  Elements are [key, val] records.
InsertSorted(sorted, x) ==
    LET n == Cardinality({i \in 1..Len(sorted) : ~KeyLess(x.key, sorted[i].key)})
    IN SubSeq(sorted, 1, n) \o <<x>> \o SubSeq(sorted, n + 1, Len(sorted))

RECURSIVE SortedByKey(_)
SortedByKey(items) ==
    IF items = <<>> THEN <<>>
    ELSE InsertSorted(SortedByKey(SubSeq(items, 1, Len(items) - 1)), items[Len(items)])

\* ---- the tree
Str_c1 == <<"c", "1">>
Str_c2 == <<"c", "2">>
Str_c10 == <<"c", "1", "0">>
Str_C1 == <<"C", "1">>
Str_x == <<"x">>
Name_1jpg == <<"1", ".", "j", "p", "g">>
Name_2JPG == <<"2", ".", "J", "P", "G">>
Name_1txt == <<"1", ".", "t", "x", "t">>

\* `folder`
Folder == <<"r">>

\* a file: the directories from the root down to it, and its name
File(dir, name) == [dir |-> dir, name |-> name]
FileUniverse ==
    { File(<<>>, Name_1jpg),
      File(<<Str_c1>>, Name_1jpg),
      File(<<Str_c1>>, Name_2JPG),
      File(<<Str_c2>>, Name_1jpg),
      File(<<Str_c2>>, Name_1txt),
      File(<<Str_c10>>, Name_1jpg),
      File(<<Str_C1>>, Name_1jpg),
      File(<<Str_x, Str_c1>>, Name_2JPG) }

Trees == {t \in SUBSET FileUniverse : Cardinality(t) <= MaxFiles}

\* line 15
IMG_EXTENSIONS == {<<".", "p", "n", "g">>, <<".", "j", "p", "g">>,
                   <<".", "j", "p", "e", "g">>}

\* os.path.splitext(f)[1]: from the last dot on, unless that dot leads the name
SplitExt(f) ==
    LET dots == {i \in 1..Len(f) : f[i] = "."}
        last == IF dots = {} THEN 0 ELSE CHOOSE i \in dots : \A k \in dots : k <= i
    IN IF last = 0 \/ (\A i \in 1..last : f[i] = ".") THEN <<>>
       ELSE SubSeq(f, last, Len(f))

\* line 31
Qualifies(f) == Lower(SplitExt(f.name)) \in IMG_EXTENSIONS

\* lines 27-28 with leaf_name_only: os.path.basename of the relative path
LabelOf(f) == IF f.dir = <<>> THEN <<>> ELSE f.dir[Len(f.dir)]

\* line 32: os.path.join(root, f), root being folder/<relative path>
RECURSIVE JoinPath(_, _)
JoinPath(base, comps) ==
    IF comps = <<>> THEN base
    ELSE JoinPath(base \o <<"/">> \o Head(comps), Tail(comps))
PathOf(f) == JoinPath(Folder, Append(f.dir, f.name))

\* the sequences that enumerate a finite set once each
Orders(S) ==
    {o \in [1..Cardinality(S) -> S] : \A x \in S : \E i \in DOMAIN o : o[i] = x}

IsProperPrefix(a, b) == Len(a) < Len(b) /\ SubSeq(b, 1, Len(a)) = a

\* line 26: os.walk(folder, topdown=False) lists a directory's files together,
\* in the order the file system gives, after the files of its subdirectories
WalkOrders(t) ==
    {w \in Orders(t) :
       /\ \A i, k \in DOMAIN w :
            (i < k /\ w[i].dir = w[k].dir) => \A m \in i..k : w[m].dir = w[i].dir
       /\ \A i, k \in DOMAIN w : IsProperPrefix(w[i].dir, w[k].dir) => k < i}

\* lines 62-74: {v.strip(): k for k, v in enumerate(f)}
load_class_map(lines) ==
    [l \in {lines[k] : k \in DOMAIN lines} |->
       (CHOOSE k \in DOMAIN lines :
          lines[k] = l /\ \A m \in DOMAIN lines : lines[m] = l => m <= k) - 1]

\* the class map files of the model (one label per line)
ClassMapFiles == {<<Str_c1, Str_c2>>, <<<<>>, Str_c1, Str_C1, Str_c10>>}

\* lines 36-38: set(labels) iterated in setOrder, sorted by natural_key,
\* numbered
BuildClassIndex(setOrder) ==
    LET sorted_labels ==
          SortedByKey([i \in DOMAIN setOrder |->
                         [key |-> natural_key(setOrder[i]), val |-> setOrder[i]]])
    IN [l \in {setOrder[i] : i \in DOMAIN setOrder} |->
          (CHOOSE i \in DOMAIN sorted_labels : sorted_labels[i].val = l) - 1]

\* class_to_idx.get(l): no error for a label that is no key
LookupOrNone(class_to_idx, labels) ==
    [status |-> "ok",
     targets |-> [i \in DOMAIN labels |->
                    IF labels[i] \in DOMAIN class_to_idx
                      THEN class_to_idx[labels[i]] ELSE -1]]

\* line 39: [class_to_idx[l] for l in labels]
Lookup(class_to_idx, labels) ==
    IF \E i \in DOMAIN labels : labels[i] \notin DOMAIN class_to_idx
      THEN [status |-> "KeyError"]
      ELSE [status |-> "ok", targets |-> [i \in DOMAIN labels |-> class_to_idx[labels[i]]]]

\* lines 34-38: build the class index only when none was passed
ClassIndex(given, supplied, setOrder) ==
    IF ~given THEN BuildClassIndex(setOrder) ELSE supplied

\* lines 23-42 (sort=True), the walk presenting the files as `walk` and the
\* set of labels iterating as `setOrder`
find_images_and_targets(walk, given, supplied, setOrder) ==
    LET kept == SelectSeq(walk, Qualifies)
        filenames == [i \in DOMAIN kept |-> PathOf(kept[i])]
        labels == [i \in DOMAIN kept |-> LabelOf(kept[i])]
        class_to_idx == ClassIndex(given, supplied, setOrder)
        looked == Lookup(class_to_idx, labels)
    IN IF looked.status # "ok" THEN [status |-> looked.status]
       ELSE LET sorted ==
                  SortedByKey([i \in DOMAIN kept |->
                     [key |-> natural_key(filenames[i]),
                      val |-> [path |-> filenames[i], target |-> looked.targets[i]]]])
            IN [status |-> "ok",
                samples |-> [i \in DOMAIN sorted |-> sorted[i].val],
                class_to_idx |-> class_to_idx]

\* the labels of the qualifying files of a tree
LabelsIn(t) == {LabelOf(f) : f \in {g \in t : Qualifies(g)}}

\* lines 79-100
DatasetInit(walk, cm, setOrder) ==
    LET found == find_images_and_targets(walk, cm.given,
                   IF cm.given THEN load_class_map(cm.lines) ELSE <<>>, setOrder)
    IN IF found.status # "ok" THEN found
       ELSE IF Len(found.samples) = 0 THEN [status |-> "RuntimeError"]
       ELSE found

InitEnum ==
    /\ IdlePrefetch
    /\ IdleCollate
    /\ IdleAug
    /\ IdleTar
    /\ tree \in Trees
    /\ class_map \in {[given |-> FALSE, lines |-> <<>>]}
                       \cup [given : {TRUE}, lines : ClassMapFiles]
    /\ datasets = <<NotRun, NotRun>>

\* Dataset(root, class_map=...) is constructed (once as datasets[1], once, in
\* another run, as datasets[2])
Construct(r) ==
    /\ datasets[r] = NotRun
    /\ \E walk \in WalkOrders(tree) :
       \E setOrder \in (IF class_map.given THEN {<<>>}     \* line 34: no set is built
                         ELSE Orders(LabelsIn(tree))) :
         datasets' = [datasets EXCEPT ![r] = DatasetInit(walk, class_map, setOrder)]
    /\ UNCHANGED <<tree, class_map, prefetchVars, collateVars, augVars, tarVars>>

NextEnum == \E r \in 1..2 : Construct(r)

SpecEnum == InitEnum /\ [][NextEnum]_vars

(***************************************************************************)
(*                              AugMixDataset                              *)
(* An image is the sequence of what was done to it: <<"img0", "base"...>>. *)
(***************************************************************************)

\* one callable
Callable(name) == [kind |-> "callable", items |-> <<name>>]
\* a tuple of callables
TupleOf(names) == [kind |-> "tuple", items |-> names]

\* what dataset.transform may hold when the wrapper is built or assigned to
Transforms ==
    { NoTransform,
      Callable("base"),
      TupleOf(<<"base", "augment">>),
      TupleOf(<<"base", "augment", "normalize">>) }

\* what one call of the randomized augmentation may draw
Draws == {"augA", "augB", "augC"}

\* the wrapped dataset's __getitem__ (lines 102-109): sample i decoded, then
\* its transform applied if there is one
WrappedGet(i, transform) ==
    [img    |-> IF transform = NoTransform THEN <<i>> ELSE <<i>> \o transform.items,
     target |-> i % 2]

\* line 270: isinstance(x, (list, tuple)) and len(x) == 3
IsThreeTransforms(x) == x.kind = "tuple" /\ Len(x.items) = 3

\* line 284
Normalized(x, norm) == IF norm = NoTransform THEN x ELSE x \o norm.items

\* line 290 with one pass too many
ExtraSplitsOffByOne(n) == n
\* line 290: range(self.num_splits - 1)
ExtraSplits(n) == n - 1

\* lines 286-292, `draws` being what each call of the augmentation draws
AugMixGet(i, draws) ==
    LET xy == WrappedGet(i, ds_transform)
        x == xy.img
    IN IF Len(draws) > 0 /\ augmentation = NoTransform
         THEN [status |-> "TypeError"]       \* line 291: None is not callable
         ELSE [status |-> "ok",
               payload |-> <<Normalized(x, normalize)>>
                 \o [k \in 1..Len(draws) |->
                       Normalized(x \o augmentation.items \o <<draws[k]>>, normalize)],
               target |-> xy.target,
               dataset_calls |-> 1,
               augmentation_calls |-> Len(draws)]

\* lines 261-267: AugMixDataset(dataset, num_splits) over a dataset whose
\* transform is t
InitAug ==
    /\ IdlePrefetch
    /\ IdleCollate
    /\ IdleEnum
    /\ IdleTar
    /\ num_splits \in 1..MaxAugSplits
    /\ got = NotRun
    /\ \E t \in Transforms :
         IF t = NoTransform
           THEN /\ ds_transform = t /\ augmentation = NoTransform
                /\ normalize = NoTransform /\ augmix = "ok"
         ELSE IF IsThreeTransforms(t)
           THEN /\ ds_transform = Callable(t.items[1])
                /\ augmentation = Callable(t.items[2])
                /\ normalize = Callable(t.items[3]) /\ augmix = "ok"
           ELSE /\ ds_transform = t /\ augmentation = NoTransform
                /\ normalize = NoTransform /\ augmix = "AssertionError"

\* lines 279-281 and 269-273: wrapper.transform = x
SetTransform ==
    /\ augmix = "ok"
    /\ \E x \in Transforms :
         /\ IsThreeTransforms(x)        \* otherwise line 270 raises, nothing changes
         /\ ds_transform' = Callable(x.items[1])
         /\ augmentation' = Callable(x.items[2])
         /\ normalize' = Callable(x.items[3])
    /\ UNCHANGED <<num_splits, augmix, got>>

\* lines 279-281 and 270: wrapper.transform = x raising AssertionError
SetTransformRejected ==
    /\ augmix = "ok"
    /\ \E x \in Transforms :
         /\ ~IsThreeTransforms(x)
         /\ got' = [status |-> "AssertionError", call |-> "transform.setter"]
    /\ UNCHANGED <<ds_transform, augmentation, normalize, num_splits, augmix>>

\* lines 286-292: wrapper[i]
GetItem ==
    /\ augmix = "ok"
    /\ \E i \in 0..(MaxSamples - 1) :
       \E draws \in [1..ExtraSplits(num_splits) -> Draws] :
         got' = [status |-> "returned", call |-> "getitem", i |-> i,
                 num_splits |-> num_splits,
                 has_augmentation |-> augmentation # NoTransform,
                 x |-> WrappedGet(i, ds_transform).img,
                 augmentation |-> augmentation, normalize |-> normalize,
                 draws |-> draws,
                 result |-> AugMixGet(i, draws)]
    /\ UNCHANGED <<ds_transform, augmentation, normalize, num_splits, augmix>>

AugOnly == UNCHANGED <<prefetchVars, collateVars, enumVars, tarVars>>

NextAug ==
    \/ SetTransform /\ AugOnly
    \/ SetTransformRejected /\ AugOnly
    \/ GetItem /\ AugOnly

SpecAugMix == InitAug /\ [][NextAug]_vars

(***************************************************************************)
(*                               DatasetTar                                *)
(* Process 0 is the main process, which constructs the dataset; processes  *)
(* 1..num_workers are the DataLoader's workers (loader.py 188-197), each   *)
(* started with a copy of the dataset object.  With num_workers = 0 the    *)
(* main process itself reads the samples.                                  *)
(***************************************************************************)

\* the samples and class index read from the open archive: one
\* (member, target) pair per image member
extract_tar_info(members) == [m \in 1..members |-> [tarinfo |-> m, target |-> 0]]

\* line 238 keeping the handle that enumerated the archive
TarfileKept(h) == h
\* line 238: self.tarfile = None (0 stands for None)
TarfileAfterInit(h) == 0

InitTar ==
    /\ IdlePrefetch
    /\ IdleCollate
    /\ IdleEnum
    /\ IdleAug
    /\ tar_members \in 1..MaxTarMembers
    /\ num_workers \in 0..MaxWorkers
    /\ tar_pc = "new"
    /\ tar_samples = <<>>
    /\ proc = [c \in 0..MaxWorkers |-> [running |-> c = 0, tarfile |-> 0, gets |-> 0, last |-> 0]]
    /\ handles = <<>>

\* lines 229-240: the with block opens the archive, reads the samples and
\* closes it again
TarConstruct ==
    /\ tar_pc = "new"
    /\ LET h == Len(handles) + 1 IN
         /\ handles' = Append(handles, [opened_by |-> 0, opened_in |-> "__init__",
                                        open |-> FALSE, users |-> {0}])
         /\ tar_samples' = extract_tar_info(tar_members)
         /\ proc' = [proc EXCEPT ![0].tarfile = TarfileAfterInit(h)]
    /\ tar_pc' = "constructed"
    /\ UNCHANGED <<tar_members, num_workers>>

\* the DataLoader starts worker w with a copy of the dataset object
StartWorker(w) ==
    /\ tar_pc = "constructed"
    /\ w \in 1..num_workers
    /\ ~proc[w].running
    /\ proc' = [proc EXCEPT ![w] = [running |-> TRUE, tarfile |-> proc[0].tarfile, gets |-> 0, last |-> 0]]
    /\ UNCHANGED <<tar_members, num_workers, tar_pc, tar_samples, handles>>

\* lines 242-252 in process c
TarGetItem(c, index) ==
    /\ tar_pc = "constructed"
    /\ proc[c].running
    /\ IF num_workers = 0 THEN c = 0 ELSE c # 0
    /\ proc[c].gets < MaxGets
    /\ index \in DOMAIN tar_samples
    /\ LET fresh == proc[c].tarfile = 0
           h == IF fresh THEN Len(handles) + 1 ELSE proc[c].tarfile
           opened == IF fresh
                       THEN Append(handles, [opened_by |-> c, opened_in |-> "__getitem__",
                                             open |-> TRUE, users |-> {}])
                       ELSE handles
       IN /\ handles' = [opened EXCEPT ![h].users = @ \cup {c}]
          /\ proc' = [proc EXCEPT ![c].tarfile = h, ![c].gets = @ + 1,
                                    ![c].last = tar_samples[index].tarinfo]
    /\ UNCHANGED <<tar_members, num_workers, tar_pc, tar_samples>>

TarOnly == UNCHANGED <<prefetchVars, collateVars, enumVars, augVars>>

NextTar ==
    \/ TarConstruct /\ TarOnly
    \/ \E w \in 1..MaxWorkers : StartWorker(w) /\ TarOnly
    \/ \E c \in 0..MaxWorkers, index \in 1..MaxTarMembers : TarGetItem(c, index) /\ TarOnly

SpecTar == InitTar /\ [][NextTar]_vars

\* ---------------------------------------------------- enumeration claims

\* Natural order on raw strings, stated without natural_key: letter case is
\* ignored, two digit runs met at the same place compare by their integer
\* values, a string that ends (or starts a digit run) where the other still
\* has text comes first.  The result is "lt", "eq" or "gt".
RECURSIVE NaturalCompare(_, _)
NaturalCompare(a, b) ==
    IF a = <<>> /\ b = <<>> THEN "eq"
    ELSE IF a = <<>> THEN "lt"
    ELSE IF b = <<>> THEN "gt"
    ELSE IF IsDigitChar(Head(a)) /\ IsDigitChar(Head(b))
      THEN LET na == RunLen(a, TRUE)
               nb == RunLen(b, TRUE)
               va == IntOf(SubSeq(a, 1, na))
               vb == IntOf(SubSeq(b, 1, nb))
           IN IF va < vb THEN "lt"
              ELSE IF va > vb THEN "gt"
              ELSE NaturalCompare(SubSeq(a, na + 1, Len(a)), SubSeq(b, nb + 1, Len(b)))
    ELSE IF IsDigitChar(Head(a)) THEN "lt"
    ELSE IF IsDigitChar(Head(b)) THEN "gt"
    ELSE LET ca == CodePoint(LowerChar(Head(a)))
             cb == CodePoint(LowerChar(Head(b)))
         IN IF ca < cb THEN "lt"
            ELSE IF ca > cb THEN "gt"
            ELSE NaturalCompare(Tail(a), Tail(b))

\* C5: with a class map supplied, a construction that succeeds keeps exactly
\* the supplied ClassIndex (no entry added or changed), and a tree with a
\* qualifying file whose label (the empty label of a file under the root
\* included) is no key of it makes the construction fail with an error.
Thm_C5_SuppliedIndexIsFixed ==
    class_map.given =>
      \A r \in 1..2 :
        datasets[r] # NotRun =>
          /\ datasets[r].status = "ok" =>
               /\ datasets[r].class_to_idx = load_class_map(class_map.lines)
               /\ \A i \in DOMAIN datasets[r].samples :
                    datasets[r].samples[i].target \in 0..(Len(class_map.lines) - 1)
          /\ (\E f \in tree :
                /\ Lower(SplitExt(f.name)) \in IMG_EXTENSIONS
                /\ (IF f.dir = <<>> THEN <<>> ELSE f.dir[Len(f.dir)])
                     \notin {class_map.lines[k] : k \in DOMAIN class_map.lines})
               => datasets[r].status = "KeyError"

\* C5 witness: a construction failed on a file directly under the root, whose
\* empty label the supplied class map does not hold, and another class map
\* would have accepted every label
Wit_C5_UnseenLabelFails ==
    /\ class_map.given
    /\ <<>> \notin {class_map.lines[k] : k \in DOMAIN class_map.lines}
    /\ File(<<>>, Name_1jpg) \in tree
    /\ datasets[1] # NotRun
    /\ datasets[1].status = "KeyError"

\* C6: with no class map, the ids are exactly 0..m-1 for the m distinct
\* labels observed, one id per label, and a label that precedes another in
\* natural order (digit runs compared as integers) has the smaller id.
Thm_C6_DenseNaturalIds ==
    ~class_map.given =>
      \A r \in 1..2 :
        (datasets[r] # NotRun /\ datasets[r].status = "ok") =>
          LET idx == datasets[r].class_to_idx
              observed == LabelsIn(tree)
          IN /\ DOMAIN idx = observed
             /\ {idx[l] : l \in observed} = 0..(Cardinality(observed) - 1)
             /\ \A a, b \in observed : a # b => idx[a] # idx[b]
             /\ \A a, b \in observed : NaturalCompare(a, b) = "lt" => idx[a] < idx[b]

\* C6 witness: the labels c1, c2 and c10 were numbered 0, 1 and 2
Wit_C6_Class1Class2Class10 ==
    /\ ~class_map.given
    /\ LabelsIn(tree) = {Str_c1, Str_c2, Str_c10}
    /\ datasets[1] # NotRun
    /\ datasets[1].status = "ok"
    /\ datasets[1].class_to_idx[Str_c1] = 0
    /\ datasets[1].class_to_idx[Str_c2] = 1
    /\ datasets[1].class_to_idx[Str_c10] = 2

\* C7 (as claimed): two enumerations of the same tree with no class map give
\* the same ClassIndex and the same SampleIndex order, whatever order the
\* directory walk and the label set present their entries in.
Cex_C7_EnumerationDeterministic ==
    (/\ ~class_map.given
     /\ datasets[1] # NotRun
     /\ datasets[2] # NotRun)
      => datasets[1] = datasets[2]

\* ------------------------------------------------------ AugMixDataset claim

\* what the claim promises of a __getitem__ that was called: one retrieval of
\* the wrapped sample, K-1 calls of the augmentation on that x, a K-tuple of
\* normalize(x) then normalize(augmentation(x)), and sample i's label
GetItemAsClaimed ==
    LET K == got.num_splits
        r == got.result
        norm(x) == IF got.normalize = NoTransform THEN x ELSE x \o <<"normalize">>
    IN /\ r.status = "ok"
       /\ r.dataset_calls = 1
       /\ r.augmentation_calls = K - 1
       /\ Len(r.payload) = K
       /\ r.payload[1] = norm(got.x)
       /\ \A k \in 2..K :
            \E d \in Draws : r.payload[k] = norm(got.x \o <<"augment", d>>)
       /\ r.target = got.i % 2

\* C8 (as claimed): every get(i) on every AugMixDataset with K >= 1 splits
\* retrieves the wrapped sample once, calls the augmentation K-1 times on it
\* and returns the K-tuple of the clean and the augmented views with sample
\* i's label.
Cex_C8_EveryGetReturnsKViews ==
    got.status = "returned" => GetItemAsClaimed

\* C8 (amended): the same, for every get(i) on an AugMixDataset whose
\* augmentation transform is set whenever K >= 2; normalize is the identity
\* while no normalization transform is set.
Thm_C8_GetReturnsKViews ==
    (got.status = "returned" /\ (got.has_augmentation \/ got.num_splits = 1))
      => GetItemAsClaimed

\* C8 witness: a get with three splits returned a clean view and two
\* augmented views that drew differently
Wit_C8_ThreeViews ==
    /\ got.status = "returned"
    /\ got.num_splits = 3
    /\ got.has_augmentation
    /\ got.result.status = "ok"
    /\ got.result.payload[2] # got.result.payload[3]
    /\ got.result.payload[1] = got.x \o <<"normalize">>

\* --------------------------------------------------------- DatasetTar claim

\* C9: once DatasetTar is constructed, the handle that enumerated the archive
\* is closed and no process holds it; every process that reads holds a handle
\* that it opened itself in __getitem__, opened at most one, and no handle is
\* ever used by two processes.
Thm_C9_HandlePerWorker ==
    tar_pc = "constructed" =>
      /\ \A h \in DOMAIN handles :
           /\ handles[h].opened_in = "__init__" => ~handles[h].open
           /\ Cardinality(handles[h].users) <= 1
           /\ handles[h].users \subseteq {handles[h].opened_by}
      /\ \A c \in DOMAIN proc :
           /\ (proc[c].gets = 0 /\ proc[c].running) => proc[c].tarfile = 0
           /\ proc[c].gets > 0 =>
                /\ proc[c].tarfile \in DOMAIN handles
                /\ handles[proc[c].tarfile].opened_by = c
                /\ handles[proc[c].tarfile].opened_in = "__getitem__"
           /\ Cardinality({h \in DOMAIN handles :
                             /\ handles[h].opened_by = c
                             /\ handles[h].opened_in = "__getitem__"}) <= 1

\* C9 witness: two workers have each read more than once, each through its
\* own handle
Wit_C9_TwoWorkersTwoHandles ==
    /\ tar_pc = "constructed"
    /\ num_workers = 2
    /\ proc[1].gets >= 2
    /\ proc[2].gets >= 2
    /\ proc[1].tarfile # proc[2].tarfile
    /\ handles[proc[1].tarfile].users = {1}
    /\ handles[proc[2].tarfile].users = {2}

====
